---- MODULE Spec2Model ----
(***************************************************************************)
(* Model of the streaming session bridge of dianyaapi-python               *)
(* (src/src/transcribe_stream.rs, src/src/transcribe_wrapper.rs,           *)
(* src/src/types.rs).                                                      *)
(*                                                                         *)
(* A TranscribeStream owns  ws: Arc<Mutex<TranscribeWs>>  and              *)
(* stream: Arc<Mutex<Valved<..>>>.  Every host call is turned by           *)
(* future_into_py into a background task; the model has one process per    *)
(* host call (Calls), whose pc is the task's position between its .await   *)
(* points.  A spawned task has no effect before its first poll, which is   *)
(* the lock request; calls are numbered in the order of these requests.    *)
(* tokio::sync::Mutex is a FIFO lock: it is modelled as a queue whose head *)
(* is the holder.                                                          *)
(*                                                                         *)
(* TranscribeWs (crate `transcribe`) is not among the source files: its    *)
(* start/stop/write/drop are modelled from the specification (Ws* below).  *)
(***************************************************************************)
EXTENDS Integers, Sequences, FiniteSets, TLC

\* ------------------------------------------------------------------ bounds
NCalls == 3          \* host calls on the one TranscribeStream
MaxFrames == 2       \* inbound frames the remote sends
MaxApi == 2          \* one-shot host operations (SpecApi)

Calls == 1..NCalls

VARIABLES
  pc,        \* pc[t]: position of call t's task
  op,        \* op[t]: host method of call t
  arg,       \* arg[t]: its argument (payload kind / timeout kind)
  result,    \* result[t]: what the host gets back
  afterStop, \* afterStop[t]: a stop() had completed when t was invoked
  expired,   \* expired[t]: t's tokio::time::timeout timer has elapsed
  wsQ,       \* FIFO queue of the ws mutex, head = holder
  stQ,       \* FIFO queue of the stream mutex, head = holder
  state,     \* connection state of TranscribeWs
  acquired,  \* socket handles acquired so far
  released,  \* socket handles released so far
  valve,     \* TRUE once the Valved stream's trigger has fired
  signals,   \* times stop() signalled the subscription
  wire,      \* outbound wire: sequence of frame parts
  inbox,     \* inbound frames not yet taken from the frame source
  arrived,   \* number of inbound frames that have arrived
  delivered, \* inbound frames returned to the host, in order
  alive,     \* the host still references the TranscribeStream object
  api        \* the one-shot host operation in progress (SpecApi)

connVars == <<pc, op, arg, result, afterStop, expired, wsQ, stQ, state,
              acquired, released, valve, signals, wire, inbox,
              arrived, delivered, alive>>
vars == <<pc, op, arg, result, afterStop, expired, wsQ, stQ, state,
          acquired, released, valve, signals, wire, inbox,
          arrived, delivered, alive, api>>

\* ------------------------------------------------------------- vocabulary
WsOps == {"start", "stop", "send_text", "send_bytes"}
SendOps == {"send_text", "send_bytes"}
Ops == WsOps \cup {"read_next"}
Payloads == {"str", "bytes"}              \* Python type of a send argument
Timeouts == {"none", "neg", "fin"}        \* None, negative/NaN, finite >= 0
States == {"Idle", "Starting", "Open", "Closed", "Failed"}

\* Sequence helpers.
Without(q, t) == SelectSeq(q, LAMBDA x : x # t)
Holder(q) == IF q = <<>> THEN 0 ELSE Head(q)

\* message.extract::<String>() accepts a Python str only.
ExtractString(p) == p = "str"
\* data.extract::<Vec<u8>>() accepts bytes, refuses str and other objects.
ExtractBytes(p) == p = "bytes"

\* Validation of a send argument, done in the host call before dispatch.
PayloadOk(o, p) ==
  CASE o = "send_text" -> ExtractString(p)
    [] o = "send_bytes" -> ExtractBytes(p)
    [] OTHER -> TRUE

\* Message::Text(payload.into()) / Message::Binary(payload.into()).
MessageKind(o) == IF o = "send_text" THEN "Text" ELSE "Binary"

\* timeout.filter(|value| *value >= 0.0).map(Duration::from_secs_f64)
DurationUnfiltered(a) == IF a = "none" THEN "None" ELSE "Some"

Duration(a) == IF a = "fin" THEN "Some" ELSE "None"

\* Calls whose task still owns a clone of the ws Arc.
WsRefs(pcN, opN) ==
  {t \in Calls : opN[t] \in WsOps /\ pcN[t] \in {"wlock", "hand", "send"}}

\* The TranscribeWs value is dropped when the object and every clone are gone.
WsGone(pcN, opN, aliveN) == ~aliveN /\ WsRefs(pcN, opN) = {}

\* ------------------------------------------------- TranscribeWs (from spec)
\* start(): Idle -> Starting when the handshake begins; the socket handle is
\* acquired here.  Open: idempotent no-op.  Any other state: error.
WsStartBegin(s) ==
  CASE s = "Idle" -> "handshake"
    [] s = "Open" -> "noop"
    [] OTHER -> "error"

\* Handshake outcome: Starting -> Open on accept, Starting -> Failed on reject.
WsStartEnd(accept) == IF accept THEN "Open" ELSE "Failed"

\* stop(): Open|Starting -> Closed, every other state is left as it is.
WsStopState(s) == IF s \in {"Open", "Starting"} THEN "Closed" ELSE s

\* stop() signals the subscription once: only the first call fires the trigger.
WsStopSignals(v, n) == IF v THEN n ELSE n + 1

\* stop(), a failed or abandoned handshake and drop release the socket handle
\* if one is held (the handle is taken out of its slot, so only once).
WsRelease(acq, rel) == IF acq > rel THEN rel + 1 ELSE rel

\* write(): TransportError unless the state is Open or Starting.
WsWritable(s) == s \in {"Open", "Starting"}

\* ------------------------------------------------------------ task epilogue
\* Every action ends here: the new pc/op/alive decide whether the last clone
\* of the ws Arc has just been dropped, which drops TranscribeWs (socket
\* released, trigger dropped so the valve closes).
DropCloneLeak(pcN, opN, aliveN, acqN, relN, valveN) ==
  /\ pc' = pcN /\ op' = opN /\ alive' = aliveN /\ acquired' = acqN
  /\ released' = relN
  /\ valve' = valveN

DropClone(pcN, opN, aliveN, acqN, relN, valveN) ==
  /\ pc' = pcN /\ op' = opN /\ alive' = aliveN /\ acquired' = acqN
  /\ released' = IF WsGone(pcN, opN, aliveN) THEN WsRelease(acqN, relN) ELSE relN
  /\ valve' = IF WsGone(pcN, opN, aliveN) THEN TRUE ELSE valveN

StopDone == \E s \in Calls : op[s] = "stop" /\ pc[s] = "done"

\* ------------------------------------------------------------------- Init
Init ==
  /\ pc = [t \in Calls |-> "idle"]
  /\ op = [t \in Calls |-> "none"]
  /\ arg = [t \in Calls |-> "-"]
  /\ result = [t \in Calls |-> <<"Pending", 0>>]
  /\ afterStop = [t \in Calls |-> FALSE]
  /\ expired = [t \in Calls |-> FALSE]
  /\ wsQ = <<>> /\ stQ = <<>>
  /\ state = "Idle"
  /\ acquired = 0 /\ released = 0
  /\ valve = FALSE /\ signals = 0
  /\ wire = <<>>
  /\ inbox = <<>> /\ arrived = 0 /\ delivered = <<>>
  /\ alive = TRUE
  /\ api = [n |-> 0, op |-> "none", input |-> <<>>, phase |-> "idle",
            tasks |-> 0, net |-> 0, tasks0 |-> 0, net0 |-> 0]

\* ---------------------------------------------------------------- actions
ArgsOf(o) ==
  IF o \in SendOps THEN Payloads
  ELSE IF o = "read_next" THEN Timeouts ELSE {"-"}

\* tokio::sync::Mutex::lock(): join the FIFO queue (the holder is its head).
LockLifo(q, t) == <<t>> \o q

Lock(q, t) == Append(q, t)

\* The host calls method o with argument a.  Arguments are extracted (and
\* refused) in the call itself; only then is the task handed to the runtime,
\* where its first poll is ws.lock().await / stream.lock().await.
Invoke(t, o, a) ==
  /\ alive /\ pc[t] = "idle"
  /\ \A u \in Calls : u < t => pc[u] # "idle"
  /\ a \in ArgsOf(o)
  /\ arg' = [arg EXCEPT ![t] = a]
  /\ afterStop' = [afterStop EXCEPT ![t] = StopDone]
  /\ result' = [result EXCEPT ![t] =
        IF PayloadOk(o, a) THEN <<"Pending", 0>>
        ELSE IF o = "send_bytes" THEN <<"InvalidInput", 0>> ELSE <<"TypeError", 0>>]
  /\ wsQ' = IF PayloadOk(o, a) /\ o \in WsOps THEN Lock(wsQ, t) ELSE wsQ
  /\ stQ' = IF o = "read_next" THEN Lock(stQ, t) ELSE stQ
  /\ DropClone([pc EXCEPT ![t] =
                  IF ~PayloadOk(o, a) THEN "done"
                  ELSE IF o = "read_next" THEN "rlock" ELSE "wlock"],
               [op EXCEPT ![t] = o], alive, acquired, released, valve)
  /\ UNCHANGED <<expired, state, signals, wire, inbox, arrived,
                 delivered, api>>

\* The call at the head of the queue holds the mutex.
HoldsWsShared(t) == Holder(wsQ) = t /\ stQ = <<>>

HoldsWs(t) == Holder(wsQ) = t

HoldsStream(t) == Holder(stQ) = t

\* stop(): guard.stop(); Ok(())
StopOutcomeStrict(s) == IF s \in {"Open", "Starting"} THEN <<"Ok", 0>> ELSE <<"Err", 0>>

StopOutcome(s) == <<"Ok", 0>>

Stop(t) ==
  /\ pc[t] = "wlock" /\ op[t] = "stop" /\ HoldsWs(t)
  /\ state' = WsStopState(state)
  /\ signals' = WsStopSignals(valve, signals)
  /\ result' = [result EXCEPT ![t] = StopOutcome(state)]
  /\ wsQ' = Without(wsQ, t)
  /\ DropClone([pc EXCEPT ![t] = "done"], op, alive, acquired,
               WsRelease(acquired, released), TRUE)
  /\ UNCHANGED <<arg, afterStop, expired, stQ, wire, inbox, arrived,
                 delivered, api>>

\* start(): ws_guard.start().await?  -- up to the handshake's suspension.
StartBegin(t) ==
  /\ pc[t] = "wlock" /\ op[t] = "start" /\ HoldsWs(t)
  /\ IF WsStartBegin(state) = "handshake"
       THEN /\ state' = "Starting"
            /\ UNCHANGED <<wsQ, result>>
            /\ DropClone([pc EXCEPT ![t] = "hand"], op, alive, acquired + 1,
                         released, valve)
       ELSE /\ result' = [result EXCEPT ![t] =
                 IF WsStartBegin(state) = "noop" THEN <<"Ok", 0>> ELSE <<"Err", 0>>]
            /\ wsQ' = Without(wsQ, t)
            /\ UNCHANGED state
            /\ DropClone([pc EXCEPT ![t] = "done"], op, alive, acquired,
                         released, valve)
  /\ UNCHANGED <<arg, afterStop, expired, stQ, signals, wire, inbox,
                 arrived, delivered, api>>

\* The handshake completes: accepted or rejected by the remote.  A rejected
\* handshake gives the socket handle back.
StartEnd(t, accept) ==
  /\ pc[t] = "hand"
  /\ state' = WsStartEnd(accept)
  /\ result' = [result EXCEPT ![t] = IF accept THEN <<"Ok", 0>> ELSE <<"Err", 0>>]
  /\ wsQ' = Without(wsQ, t)
  /\ DropClone([pc EXCEPT ![t] = "done"], op, alive, acquired,
               IF accept THEN released ELSE WsRelease(acquired, released), valve)
  /\ UNCHANGED <<arg, afterStop, expired, stQ, signals, wire, inbox,
                 arrived, delivered, api>>

\* send_text / send_bytes: guard.write(Message::..).await?  -- the frame
\* starts going out (first part on the wire), or the write fails at once.
WriteBegin(t, sendOk) ==
  /\ pc[t] = "wlock" /\ op[t] \in SendOps /\ HoldsWs(t)
  /\ IF WsWritable(state) /\ sendOk
       THEN /\ wire' = Append(wire, [c |-> t, kind |-> MessageKind(op[t]), part |-> 1])
            /\ UNCHANGED <<wsQ, result>>
            /\ DropClone([pc EXCEPT ![t] = "send"], op, alive, acquired,
                         released, valve)
       ELSE /\ result' = [result EXCEPT ![t] = <<"Err", 0>>]
            /\ wsQ' = Without(wsQ, t)
            /\ UNCHANGED wire
            /\ DropClone([pc EXCEPT ![t] = "done"], op, alive, acquired,
                         released, valve)
  /\ UNCHANGED <<arg, afterStop, expired, stQ, state, signals, inbox,
                 arrived, delivered, api>>

\* The rest of the frame goes out; the guard is dropped at the end of the task.
WriteEnd(t) ==
  /\ pc[t] = "send"
  /\ wire' = Append(wire, [c |-> t, kind |-> MessageKind(op[t]), part |-> 2])
  /\ result' = [result EXCEPT ![t] = <<"Ok", 0>>]
  /\ wsQ' = Without(wsQ, t)
  /\ DropClone([pc EXCEPT ![t] = "done"], op, alive, acquired, released, valve)
  /\ UNCHANGED <<arg, afterStop, expired, stQ, state, signals, inbox,
                 arrived, delivered, api>>

\* read_next holds the stream mutex: tokio::time::timeout(duration, ..) has
\* been created (the timer starts only now), and it elapses.
TimerExpire(t) ==
  /\ pc[t] = "rlock" /\ HoldsStream(t) /\ Duration(arg[t]) = "Some" /\ ~expired[t]
  /\ expired' = [expired EXCEPT ![t] = TRUE]
  /\ UNCHANGED <<pc, op, arg, result, afterStop, wsQ, stQ, state, acquired,
                 released, valve, signals, wire, inbox, arrived,
                 delivered, alive, api>>

\* One poll of guard.next() (under timeout(duration, ..) when there is a
\* duration).  Valved yields None once the trigger has fired, whatever is
\* buffered; otherwise the next frame; timeout polls the stream before its
\* timer, so a frame that is ready wins over an elapsed timer.
\* Outcome: <<what is returned, what is left in the inbox>>, or "wait".
PollEager(v, box, dur, exp) ==
  IF box # <<>> THEN <<"frame", Tail(box)>>
  ELSE IF v THEN <<"none", box>>
  ELSE IF dur = "Some" /\ exp THEN <<"none", box>>
  ELSE <<"wait", box>>

PollLossy(v, box, dur, exp) ==
  IF v THEN <<"none", box>>
  ELSE IF dur = "Some" /\ exp THEN <<"none", IF box = <<>> THEN box ELSE Tail(box)>>
  ELSE IF box # <<>> THEN <<"frame", Tail(box)>>
  ELSE <<"wait", box>>

PollDeaf(v, box, dur, exp) ==
  IF box # <<>> THEN <<"frame", Tail(box)>>
  ELSE IF dur = "Some" /\ exp THEN <<"none", box>>
  ELSE <<"wait", box>>

Poll(v, box, dur, exp) ==
  IF v THEN <<"none", box>>
  ELSE IF box # <<>> THEN <<"frame", Tail(box)>>
  ELSE IF dur = "Some" /\ exp THEN <<"none", box>>
  ELSE <<"wait", box>>

\* message.to_string(): the frame's text as a host string.
ToHostString(f) == <<"Some", f>>

ReadPoll(t) ==
  /\ pc[t] = "rlock" /\ HoldsStream(t)
  /\ LET r == Poll(valve, inbox, Duration(arg[t]), expired[t]) IN
       /\ r[1] # "wait"
       /\ inbox' = r[2]
       /\ result' = [result EXCEPT ![t] =
             IF r[1] = "frame" THEN ToHostString(Head(inbox)) ELSE <<"None", 0>>]
       /\ delivered' = IF r[1] = "frame" THEN Append(delivered, Head(inbox))
                       ELSE delivered
  /\ stQ' = Without(stQ, t)
  /\ pc' = [pc EXCEPT ![t] = "done"]
  /\ expired' = [expired EXCEPT ![t] = FALSE]
  /\ UNCHANGED <<op, arg, afterStop, wsQ, state, acquired, released,
                 valve, signals, wire, arrived, alive, api>>

\* The remote sends an inbound frame on the connected socket.
Arrive ==
  /\ state = "Open" /\ arrived < MaxFrames
  /\ arrived' = arrived + 1
  /\ inbox' = Append(inbox, arrived + 1)
  /\ UNCHANGED <<pc, op, arg, result, afterStop, expired, wsQ, stQ, state,
                 acquired, released, valve, signals, wire, delivered,
                 alive, api>>

\* The host drops its last reference to the TranscribeStream object.
Teardown ==
  /\ alive
  /\ DropClone(pc, op, FALSE, acquired, released, valve)
  /\ UNCHANGED <<arg, result, afterStop, expired, wsQ, stQ, state, signals,
                 wire, inbox, arrived, delivered, api>>

\* Steps of call t's background task.
Step(t) ==
  \/ Stop(t)
  \/ StartBegin(t)
  \/ \E accept \in BOOLEAN : StartEnd(t, accept)
  \/ \E sendOk \in BOOLEAN : WriteBegin(t, sendOk)
  \/ WriteEnd(t)
  \/ TimerExpire(t)
  \/ ReadPoll(t)

Next ==
  \/ \E t \in Calls, o \in Ops : \E a \in ArgsOf(o) : Invoke(t, o, a)
  \/ \E t \in Calls : Step(t)
  \/ Arrive
  \/ Teardown

Spec == Init /\ [][Next]_vars

\* The runtime polls every ready task and every timer fires; the host and the
\* remote are free to do nothing.
FairSpec == Spec /\ \A t \in Calls : WF_vars(Step(t))

\* Steps of call t's task that the runtime alone decides: everything but the
\* end of the handshake, which waits for the remote's answer.
LocalStep(t) ==
  \/ Stop(t)
  \/ StartBegin(t)
  \/ \E sendOk \in BOOLEAN : WriteBegin(t, sendOk)
  \/ WriteEnd(t)
  \/ TimerExpire(t)
  \/ ReadPoll(t)

\* Fair scheduling of the tasks, with a remote that may leave a handshake
\* pending for ever.
FairLocal == Spec /\ \A t \in Calls : WF_vars(LocalStep(t))

\* ------------------------------------------------------ host cancellation
\* Call t's task is suspended: at an .await whose future is not ready.
Suspended(t) ==
  \/ pc[t] = "wlock" /\ ~HoldsWs(t)
  \/ pc[t] \in {"hand", "send"}
  \/ pc[t] = "rlock" /\ ~HoldsStream(t)
  \/ /\ pc[t] = "rlock" /\ HoldsStream(t)
     /\ Poll(valve, inbox, Duration(arg[t]), expired[t])[1] = "wait"

\* The host cancels the awaitable of call t.  future_into_py wraps the task's
\* future so that it is dropped at its suspension point when the awaitable is
\* cancelled: a queued lock request leaves the queue, a held guard is
\* released, and whatever the suspended operation had begun stays as it is.
\* A handshake dropped half-way gives its socket handle back.
HostCancel(t) ==
  /\ Suspended(t)
  /\ wsQ' = Without(wsQ, t)
  /\ stQ' = Without(stQ, t)
  /\ expired' = [expired EXCEPT ![t] = FALSE]
  /\ DropClone([pc EXCEPT ![t] = "dropped"], op, alive, acquired,
               IF pc[t] = "hand" THEN WsRelease(acquired, released) ELSE released,
               valve)
  /\ UNCHANGED <<arg, result, afterStop, state, signals, wire, inbox,
                 arrived, delivered, api>>

NextCancel ==
  \/ Next
  \/ \E t \in Calls : HostCancel(t)

SpecCancel == Init /\ [][NextCancel]_vars


\* --------------------------------------------- one-shot host operations
\* Strings are sequences of characters.
UpperCase == <<"A", "B", "C", "D", "E", "F", "G", "H", "I", "J", "K", "L", "M",
               "N", "O", "P", "Q", "R", "S", "T", "U", "V", "W", "X", "Y", "Z">>
LowerCase == <<"a", "b", "c", "d", "e", "f", "g", "h", "i", "j", "k", "l", "m",
               "n", "o", "p", "q", "r", "s", "t", "u", "v", "w", "x", "y", "z">>

\* u8::to_ascii_lowercase
LowerChar(c) ==
  IF \E i \in 1..26 : UpperCase[i] = c
  THEN LowerCase[CHOOSE i \in 1..26 : UpperCase[i] = c]
  ELSE c

\* str::to_ascii_lowercase
to_ascii_lowercase(w) == [i \in 1..Len(w) |-> LowerChar(w[i])]

\* Result of a parser: the enum value, or "Err" (Error::InvalidInput).
parse_model(value) ==
  LET v == to_ascii_lowercase(value) IN
  CASE v = <<"s", "p", "e", "e", "d">> -> "Speed"
    [] v = <<"q", "u", "a", "l", "i", "t", "y">> -> "Quality"
    [] v = <<"q", "u", "a", "l", "i", "t", "y", "_", "v", "2">> -> "QualityV2"
    [] OTHER -> "Err"

parse_export_type(value) ==
  LET v == to_ascii_lowercase(value) IN
  CASE v = <<"t", "r", "a", "n", "s", "c", "r", "i", "p", "t">> -> "Transcript"
    [] v = <<"o", "v", "e", "r", "v", "i", "e", "w">> -> "Overview"
    [] v = <<"s", "u", "m", "m", "a", "r", "y">> -> "Summary"
    [] OTHER -> "Err"

parse_export_format(value) ==
  LET v == to_ascii_lowercase(value) IN
  CASE v = <<"p", "d", "f">> -> "Pdf"
    [] v = <<"t", "x", "t">> -> "Txt"
    [] v = <<"d", "o", "c", "x">> -> "Docx"
    [] OTHER -> "Err"

parse_language(value) ==
  LET v == to_ascii_lowercase(value) IN
  CASE v = <<"z", "h">> \/ v = <<"z", "h", "-", "c", "n">> -> "ChineseSimplified"
    [] v = <<"e", "n">> \/ v = <<"e", "n", "-", "u", "s">> -> "EnglishUS"
    [] v = <<"j", "a">> -> "Japanese"
    [] v = <<"k", "o">> \/ v = <<"k", "r">> \/ v = <<"j", "p">> -> "Korean"
    [] v = <<"f", "r">> -> "French"
    [] v = <<"d", "e">> -> "German"
    [] OTHER -> "Err"

\* Inputs the host passes.
ModelInputs ==
  {<<"s", "p", "e", "e", "d">>,
   <<"Q", "u", "a", "l", "i", "t", "y">>,
   <<"Q", "U", "A", "L", "I", "T", "Y", "_", "V", "2">>,
   <<"f", "a", "s", "t">>,
   <<"s", "p", "e", "e", "d", "y">>,
   <<>>}
TypeInputs ==
  {<<"t", "r", "a", "n", "s", "c", "r", "i", "p", "t">>,
   <<"O", "v", "e", "r", "v", "i", "e", "w">>,
   <<"S", "U", "M", "M", "A", "R", "Y">>,
   <<"p", "d", "f">>}
FormatInputs ==
  {<<"p", "d", "f">>,
   <<"T", "X", "T">>,
   <<"d", "o", "c", "x">>,
   <<"s", "u", "m", "m", "a", "r", "y">>}
LanguageInputs ==
  {<<"z", "h">>,
   <<"Z", "H", "-", "C", "N">>,
   <<"e", "n">>,
   <<"e", "n", "-", "U", "S">>,
   <<"j", "a">>,
   <<"k", "o">>,
   <<"k", "r">>,
   <<"j", "p">>,
   <<"f", "r">>,
   <<"D", "E">>,
   <<"x", "x">>}

ApiOps == {"create_session", "transcribe_upload", "transcribe_export",
           "translate_text", "send_bytes"}

\* The arguments of a host operation that its validation reads.
ApiInputs(o) ==
  CASE o \in {"create_session", "transcribe_upload"} -> {<<m>> : m \in ModelInputs}
    [] o = "transcribe_export" -> {<<ty, f>> : ty \in TypeInputs, f \in FormatInputs}
    [] o = "translate_text" -> {<<l>> : l \in LanguageInputs}
    [] OTHER -> {<<p>> : p \in Payloads}

\* The validation the host call runs before future_into_py; TRUE when it passes.
Validate(o, in) ==
  CASE o \in {"create_session", "transcribe_upload"} -> parse_model(in[1]) # "Err"
    [] o = "transcribe_export" ->
         parse_export_type(in[1]) # "Err" /\ parse_export_format(in[2]) # "Err"
    [] o = "translate_text" -> parse_language(in[1]) # "Err"
    [] OTHER -> ExtractBytes(in[1])

\* A host call: the arguments are validated first; future_into_py (a new
\* background task) is reached only when validation passed.
ApiInvokeEager(o, in) ==
  /\ api.phase = "idle" /\ api.n < MaxApi
  /\ in \in ApiInputs(o)
  /\ api' = [api EXCEPT !.n = @ + 1, !.op = o, !.input = in,
                        !.phase = IF Validate(o, in) THEN "dispatched" ELSE "rejected",
                        !.tasks0 = api.tasks, !.net0 = api.net,
                        !.tasks = @ + 1]
  /\ UNCHANGED connVars

ApiInvoke(o, in) ==
  /\ api.phase = "idle" /\ api.n < MaxApi
  /\ in \in ApiInputs(o)
  /\ api' = [api EXCEPT !.n = @ + 1, !.op = o, !.input = in,
                        !.phase = IF Validate(o, in) THEN "dispatched" ELSE "rejected",
                        !.tasks0 = api.tasks, !.net0 = api.net,
                        !.tasks = IF Validate(o, in) THEN @ + 1 ELSE @]
  /\ UNCHANGED connVars

\* The background task runs: the request goes to the network.
ApiRun ==
  /\ api.phase = "dispatched"
  /\ api' = [api EXCEPT !.phase = "net", !.net = @ + 1]
  /\ UNCHANGED connVars

\* The host gets the outcome (the result, or the validation error).
ApiReturn ==
  /\ api.phase \in {"net", "rejected"}
  /\ api' = [api EXCEPT !.phase = "idle"]
  /\ UNCHANGED connVars

NextApi ==
  \/ \E o \in ApiOps : \E in \in ApiInputs(o) : ApiInvoke(o, in)
  \/ ApiRun
  \/ ApiReturn

SpecApi == Init /\ [][NextApi]_vars

\* ================================================================= claims
ReadCalls == {t \in Calls : op[t] = "read_next"}
SendCalls == {t \in Calls : op[t] \in SendOps}
None == <<"None", 0>>
Ok == <<"Ok", 0>>
Odd(i) == i % 2 = 1

Stopped == valve /\ state \notin {"Open", "Starting"} /\ released = acquired

C2_StopIdempotent ==
  [][\A t \in Calls : Stop(t) =>
        /\ result'[t] = Ok
        /\ Stopped'
        /\ Stopped => /\ state' = state /\ valve' = valve
                      /\ signals' = signals
                      /\ acquired' = acquired /\ released' = released]_vars

\* Two stop() calls have both completed on a connection that had been opened.
C2_Witness ==
  \E t, u \in Calls :
    /\ t # u /\ op[t] = "stop" /\ op[u] = "stop"
    /\ pc[t] = "done" /\ pc[u] = "done"
    /\ result[t] = Ok /\ result[u] = Ok
    /\ acquired = 1 /\ state = "Closed"

\* C3: concurrent writes are serialised by the connection lock.  At most one
\* write is in flight; the wire is a sequence of whole frames (both parts of
\* one call, adjacent, of the kind the call sent), one frame per write that was
\* sent, in the order in which the callers requested (and so were granted) the
\* lock; a write that returned success has exactly one frame on the wire.
InFlight == {t \in Calls : pc[t] = "send"}
FrameCalls == {wire[i].c : i \in 1..Len(wire)}

C3_WritesSerialised ==
  /\ Cardinality(InFlight) <= 1
  /\ \A i \in 1..Len(wire) :
       /\ wire[i].part = IF Odd(i) THEN 1 ELSE 2
       /\ wire[i].kind = MessageKind(op[wire[i].c])
       /\ ~Odd(i) => wire[i].c = wire[i - 1].c
       /\ (Odd(i) /\ i > 2) => wire[i - 2].c < wire[i].c
  /\ Odd(Len(wire)) <=> InFlight # {}
  /\ InFlight # {} => InFlight = {wire[Len(wire)].c}
  /\ \A t \in SendCalls :
       (pc[t] = "done" /\ result[t] = Ok) <=> (t \in FrameCalls /\ t \notin InFlight)

\* Two writes have each returned success and put a whole frame on the wire.
C3_Witness ==
  /\ Len(wire) = 4
  /\ \E t, u \in SendCalls : t # u /\ result[t] = Ok /\ result[u] = Ok

\* C4: a read_next timeout never loses a frame.  Frames leave the inbound
\* source only by being returned: the frames returned so far, followed by the
\* frames still in the source, are exactly the frames that arrived, in order;
\* and each returned frame is the result of exactly one read_next call.
Arrivals == [i \in 1..arrived |-> i]
Returned == {t \in ReadCalls : pc[t] = "done" /\ result[t][1] = "Some"}

C4_TimeoutLosesNoFrame ==
  /\ delivered \o inbox = Arrivals
  /\ Cardinality(Returned) = Len(delivered)
  /\ \A i \in 1..Len(delivered) : \E t \in Returned : result[t] = ToHostString(delivered[i])
  /\ \A t, u \in Returned : (t < u) => result[t][2] < result[u][2]

\* A read timed out on the open connection (the stream never ended), and a
\* later read returned the frame that arrived after the timeout.
C4_Witness ==
  \E t, u \in ReadCalls :
    /\ t < u /\ ~valve
    /\ arg[t] = "fin" /\ pc[t] = "done" /\ result[t] = None
    /\ pc[u] = "done" /\ result[u] = ToHostString(1)

\* C5: every read_next with a finite timeout, pending on an open connection,
\* eventually returns, whatever other read_next calls are pending on the
\* subscription.
C5_TimedReadReturns ==
  \A t \in Calls :
    (state = "Open" /\ pc[t] = "rlock" /\ arg[t] = "fin") ~> (pc[t] = "done")

\* C6: stop() signals the subscription exactly once, and every read_next that
\* is blocked when a stop() has completed (holding the stream lock or queued
\* behind it, with or without a timeout) eventually returns the absent
\* outcome, no frame having to arrive.
C6_BlockedReadsEnd ==
  /\ [](signals <= 1 /\ (StopDone => signals = 1))
  /\ \A t \in Calls :
       (StopDone /\ op[t] = "read_next" /\ pc[t] = "rlock")
          ~> (pc[t] = "done" /\ result[t] = None)

\* A read with no timeout, invoked before any stop() completed, has returned
\* absent after a stop(), on a live object and with no frame ever arrived.
C6_Witness ==
  \E t \in ReadCalls :
    /\ ~afterStop[t] /\ arg[t] = "none" /\ pc[t] = "done" /\ result[t] = None
    /\ StopDone /\ alive /\ arrived = 0

\* C7: the work of a bridged call runs to completion also when the host
\* stops awaiting or cancels it: the connection is never left half-applied,
\* with a handshake begun (Starting) or a frame begun on the wire by a task
\* that no longer exists to finish it.
HalfApplied ==
  \/ state = "Starting" /\ \A t \in Calls : pc[t] # "hand"
  \/ Odd(Len(wire)) /\ \A t \in Calls : pc[t] # "send"

C7_WorkRunsToCompletion == ~HalfApplied

\* C8: the connection state changes only along Idle->Starting,
\* Starting->Open, Starting->Failed, Open->Closed and Starting->Closed;
\* nothing leaves Closed.
Allowed ==
  {<<"Idle", "Starting">>, <<"Starting", "Open">>, <<"Starting", "Failed">>,
   <<"Open", "Closed">>, <<"Starting", "Closed">>}

C8_StateTransitions ==
  [][state' # state => <<state, state'>> \in Allowed]_vars

\* A start() invoked after a completed stop() has returned, and the
\* connection is still Closed.
C8_Witness ==
  /\ state = "Closed"
  /\ \E t \in Calls : op[t] = "start" /\ afterStop[t] /\ pc[t] = "done"

\* C9: validation precedes dispatch.  A host call whose input is refused has
\* started no background task and no network call; a call that was dispatched
\* had a valid input; and the model string "fast" is refused.
Fast == <<"f", "a", "s", "t">>
ModelNames ==
  {<<"s", "p", "e", "e", "d">>, <<"q", "u", "a", "l", "i", "t", "y">>,
   <<"q", "u", "a", "l", "i", "t", "y", "_", "v", "2">>}

C9_ValidationBeforeDispatch ==
  /\ api.phase = "rejected" => (api.tasks = api.tasks0 /\ api.net = api.net0)
  /\ api.phase \in {"dispatched", "net"} => Validate(api.op, api.input)
  /\ (api.phase # "idle" /\ api.op \in {"create_session", "transcribe_upload"}
        /\ to_ascii_lowercase(api.input[1]) \notin ModelNames)
       => api.phase = "rejected"
  /\ api.net <= api.tasks

\* create_session("fast") has been refused after an earlier call went out to
\* the network.
C9_Witness ==
  /\ api.op = "create_session" /\ api.input = <<Fast>> /\ api.phase = "rejected"
  /\ api.net = 1

\* C10: the socket handle acquired by start() is released exactly once: never
\* more often than it was acquired, and it is not held any more once the
\* connection is Closed or Failed, a stop() has completed, or the object and
\* all its tasks are gone.
C10_SocketReleasedOnce ==
  /\ released <= acquired /\ acquired <= 1
  /\ (acquired > released) =>
       /\ state \in {"Starting", "Open"}
       /\ ~WsGone(pc, op, alive)

\* The object was torn down without any stop(): the handle was released once.
C10_Witness ==
  /\ WsGone(pc, op, alive) /\ acquired = 1 /\ released = 1
  /\ \A t \in Calls : op[t] # "stop"
  /\ state = "Open"

\* C11: no caller of a mutating operation is starved.  Every start, stop or
\* write that waits for the connection lock is eventually granted it and
\* proceeds, also when it was issued while another caller's start() is
\* suspended in a handshake that stays pending.
C11_NoCallerStarved ==
  \A t \in Calls :
    (op[t] \in WsOps /\ pc[t] = "wlock") ~> (pc[t] # "wlock")
\* C12: reads and writes never contend.  read_next queues only on the stream
\* lock and start/stop/write only on the connection lock, so no call is in
\* both queues; whoever holds the connection lock can always take its next
\* step, whatever the readers do, and a reader holding the stream lock whose
\* poll is ready can always return, whatever the writers do.
WsStep(t) ==
  \/ Stop(t)
  \/ StartBegin(t)
  \/ \E accept \in BOOLEAN : StartEnd(t, accept)
  \/ \E sendOk \in BOOLEAN : WriteBegin(t, sendOk)
  \/ WriteEnd(t)

C12_ReadsWritesIndependent ==
  /\ \A i \in 1..Len(wsQ) :
       op[wsQ[i]] \in WsOps /\ pc[wsQ[i]] \in {"wlock", "hand", "send"}
  /\ \A i \in 1..Len(stQ) :
       op[stQ[i]] = "read_next" /\ pc[stQ[i]] = "rlock"
  /\ \A t \in Calls :
       /\ (pc[t] \in {"wlock", "hand", "send"}) <=> (\E i \in 1..Len(wsQ) : wsQ[i] = t)
       /\ (pc[t] = "rlock") <=> (\E i \in 1..Len(stQ) : stQ[i] = t)
  /\ wsQ # <<>> => ENABLED WsStep(Head(wsQ))
  /\ \A t \in Calls :
       (stQ # <<>> /\ Head(stQ) = t
          /\ Poll(valve, inbox, Duration(arg[t]), expired[t])[1] # "wait")
         => ENABLED ReadPoll(t)

\* A read with no timeout is blocked on the open, silent connection, holding
\* the stream lock, and a write issued after it has returned success.
C12_Witness ==
  \E r \in ReadCalls, w \in SendCalls :
    /\ r < w /\ arg[r] = "none" /\ pc[r] = "rlock" /\ Holder(stQ) = r
    /\ ~valve /\ inbox = <<>> /\ state = "Open"
    /\ pc[w] = "done" /\ result[w] = Ok
\* C13: read_next treats a negative (or NaN) timeout exactly like an absent
\* one.  Such a call has no timer; it returns absent only when the stream has
\* ended; and while it holds the stream lock on a connection with no inbound
\* frame and an open valve it cannot return, and it keeps the lock.
NegReads == {t \in ReadCalls : arg[t] = "neg"}

C13_NegativeTimeoutIsNone ==
  \A t \in NegReads :
    /\ ~expired[t]
    /\ ~ENABLED TimerExpire(t)
    /\ (pc[t] = "done" /\ result[t] = None) => valve
    /\ (pc[t] = "rlock" /\ Holder(stQ) = t /\ inbox = <<>> /\ ~valve)
         => ~ENABLED ReadPoll(t)

\* A read with a negative timeout holds the stream lock on the open, silent
\* connection, with another read queued behind it.
C13_Witness ==
  \E t \in NegReads :
    /\ pc[t] = "rlock" /\ Holder(stQ) = t /\ Len(stQ) >= 2
    /\ state = "Open" /\ inbox = <<>> /\ ~valve

====
